---- MODULE Spec2Model ----
(***************************************************************************)
(* lokikit: process supervision and service readiness.                     *)
(*                                                                         *)
(* The model covers src/lokikit/process.py (PID registry, liveness probe,  *)
(* readiness waiter, graceful terminator) and the lifecycle commands of    *)
(* src/lokikit/commands.py (start, stop, status, clean, force-quit).  The *)
(* operating system is the environment: a process table indexed by pid,   *)
(* the set of reachable service ports, and the registry file in the base   *)
(* directory.                                                              *)
(***************************************************************************)
EXTENDS Integers, Sequences, FiniteSets, TLC

VARIABLES
    ptable,     \* process table: pid -> class of the process holding it
    reach,      \* service names whose port accepts a TCP connection
    envLeft,    \* pid reuses the environment may still make in this run
    pidFile,    \* registry file lokikit.pid: NoFile or its lines
    baseDir,    \* TRUE while the base directory exists
    procs,      \* Popen handles of the running invocation
    ss,         \* frame of stop_services
    ws,         \* frame of wait_for_services
    cs,         \* last call of check_services_running
    cmd,        \* the running CLI invocation
    rg,         \* frame of a registry write / read pair
    other       \* a second invocation running at the same time, while descheduled

vars == <<ptable, reach, envLeft, pidFile, baseDir, procs, ss, ws, cs, cmd, rg, other>>

(***************************************************************************)
(* Bounds of the model.                                                    *)
(***************************************************************************)
MaxUnitPid == 2
MaxSpawn == 1
MaxMap == 2
MaxTimeout == 2
MaxStartTimeout == 1
MaxPid == 7

\* A prior and the running invocation of start launch three processes each;
\* one pid is spare.
Pids == 1..MaxPid
UnitPids == 1..MaxUnitPid

(***************************************************************************)
(* Program constants.                                                      *)
(***************************************************************************)
TermPolls == 20
KillPolls == 10

ServiceNames == <<"loki", "promtail", "grafana">>
ServiceSet == {"loki", "promtail", "grafana"}

\* Classes of a process-table slot: "none" is a free pid; "loki", "promtail"
\* and "grafana" are processes whose command line matches that service's
\* pgrep pattern; "other" matches no pattern; "foreign" matches no pattern
\* and belongs to another user (signals to it fail with EPERM).
Classes == {"none", "loki", "promtail", "grafana", "other", "foreign"}

\* The registry file: absent, or its lines (each a sequence of tokens).
NoFile == [exists |-> FALSE, lines |-> <<>>]

(***************************************************************************)
(* Id maps are Python dicts: sequences of [name, pid] in insertion order.  *)
(***************************************************************************)
MapNames(m) == {m[k].name : k \in 1..Len(m)}

(***************************************************************************)
(* os.kill(pid, sig): the outcome of the system call on the process table. *)
(***************************************************************************)
os_kill(pt, pid) ==
    IF pid \notin DOMAIN pt \/ pt[pid] = "none" THEN "ESRCH"
    ELSE IF pt[pid] = "foreign" THEN "EPERM"
    ELSE "ok"

(***************************************************************************)
(* stop_services(pids): one frame, one step per system call.               *)
(***************************************************************************)
ssIdle ==
    [pc |-> "idle", pids |-> <<>>, i |-> 0, n |-> 0,
     stopped |-> <<>>, failed |-> <<>>, success |-> TRUE, ret |-> "none",
     termSent |-> {}, killSent |-> {}, aliveObs |-> 0, goneObs |-> FALSE]

\* Entry of stop_services: success = True, stopped = [], failed = [].
ss_call(pids, ret) ==
    [ssIdle EXCEPT !.pc = IF Len(pids) = 0 THEN "done" ELSE "term",
                   !.pids = pids, !.i = IF Len(pids) = 0 THEN 0 ELSE 1,
                   !.ret = ret]

\* The for loop over pids.items() moves to the next entry or ends.
ss_advance(s) ==
    LET t == [s EXCEPT !.n = 0, !.aliveObs = 0, !.goneObs = FALSE]
    IN IF s.i < Len(s.pids)
       THEN [t EXCEPT !.i = s.i + 1, !.pc = "term"]
       ELSE [t EXCEPT !.pc = "done"]

ss_stoppedAppend(s) ==
    ss_advance([s EXCEPT !.stopped = Append(s.stopped, s.pids[s.i].name)])

\* Mutant: a failed service leaves the overall result as it was.
ss_failedAppend_keeps_success(s) ==
    ss_advance([s EXCEPT !.failed = Append(s.failed, s.pids[s.i].name)])

ss_failedAppend(s) ==
    ss_advance([s EXCEPT !.failed = Append(s.failed, s.pids[s.i].name),
                         !.success = FALSE])

\* os.kill(pid, SIGTERM) and the outer except OSError (errno 3 or other).
stop_services_term ==
    /\ ss.pc = "term"
    /\ LET pid == ss.pids[ss.i].pid
           r == os_kill(ptable, pid)
       IN ss' = CASE r = "ok" ->
                       [ss EXCEPT !.pc = "poll", !.n = 0,
                                  !.termSent = ss.termSent \cup {pid},
                                  !.aliveObs = 0, !.goneObs = FALSE]
                  [] r = "ESRCH" -> ss_stoppedAppend(ss)
                  [] OTHER -> ss_failedAppend(ss)
    /\ UNCHANGED <<other, rg, ptable, reach, envLeft, pidFile, baseDir, procs, ws, cs, cmd>>

\* for _ in range(20): os.kill(pid, 0); time.sleep(0.1) / except OSError: break
stop_services_poll ==
    /\ ss.pc = "poll"
    /\ LET pid == ss.pids[ss.i].pid
           r == os_kill(ptable, pid)
       IN ss' = IF r = "ok"
                THEN [ss EXCEPT !.n = ss.n + 1,
                                !.aliveObs = ss.aliveObs + 1,
                                !.pc = IF ss.n + 1 = TermPolls THEN "final" ELSE "poll"]
                ELSE [ss EXCEPT !.pc = "final", !.goneObs = TRUE]
    /\ UNCHANGED <<other, rg, ptable, reach, envLeft, pidFile, baseDir, procs, ws, cs, cmd>>

\* "Check one last time": os.kill(pid, 0); OSError means gone after SIGTERM.
stop_services_final ==
    /\ ss.pc = "final"
    /\ LET pid == ss.pids[ss.i].pid
           r == os_kill(ptable, pid)
       IN ss' = IF r = "ok"
                THEN [ss EXCEPT !.pc = "kill", !.aliveObs = ss.aliveObs + 1]
                ELSE ss_stoppedAppend(ss)
    /\ UNCHANGED <<other, rg, ptable, reach, envLeft, pidFile, baseDir, procs, ws, cs, cmd>>

\* os.kill(pid, SIGKILL); an OSError here lands in the inner except OSError.
stop_services_kill ==
    /\ ss.pc = "kill"
    /\ LET pid == ss.pids[ss.i].pid
           r == os_kill(ptable, pid)
       IN ss' = IF r = "ok"
                THEN [ss EXCEPT !.pc = "kpoll", !.n = 0,
                                !.killSent = ss.killSent \cup {pid}]
                ELSE ss_stoppedAppend(ss)
    /\ UNCHANGED <<other, rg, ptable, reach, envLeft, pidFile, baseDir, procs, ws, cs, cmd>>

\* for _ in range(10): os.kill(pid, 0); time.sleep(0.1) / except: stopped; break
\* else: failed, success = False
stop_services_kpoll ==
    /\ ss.pc = "kpoll"
    /\ LET pid == ss.pids[ss.i].pid
           r == os_kill(ptable, pid)
       IN ss' = IF r = "ok"
                THEN IF ss.n + 1 = KillPolls
                     THEN ss_failedAppend(ss)
                     ELSE [ss EXCEPT !.n = ss.n + 1]
                ELSE ss_stoppedAppend(ss)
    /\ UNCHANGED <<other, rg, ptable, reach, envLeft, pidFile, baseDir, procs, ws, cs, cmd>>

stop_services ==
    \/ stop_services_term
    \/ stop_services_poll
    \/ stop_services_final
    \/ stop_services_kill
    \/ stop_services_kpoll

(***************************************************************************)
(* The environment: processes exit on their own and pids are reused.       *)
(***************************************************************************)
HandlePids == {procs[k].pid : k \in 1..Len(procs)}

\* The next step of the tool reads the process-table slot of pid p.  The
\* environment moves when the tool is about to look: a change made earlier
\* and not looked at in between is the same change made now.
Observes(p) ==
    \/ cs.pc = "call"
    \/ cmd.pc \in {"start", "stop", "status", "clean", "stop_sweep", "start_launch",
                  "fq_sweep"}
    \/ cmd.pc = "fq_registry" /\ cmd.existing[cmd.sw.idx].pid = p
    \/ cmd.pc = "fq_kill" /\ cmd.sw.found[cmd.sw.idx] = p
    \/ ss.pc \in {"term", "poll", "final", "kill", "kpoll"} /\ ss.pids[ss.i].pid = p
    \/ cmd.pc \in {"stop_signal", "stop_poll", "stop_kill"} /\ cmd.sw.found[cmd.sw.idx] = p
    \/ (ws.pc = "poll" \/ cmd.pc = "start_fg") /\ p \in HandlePids

EnvExit(p) ==
    /\ ptable[p] # "none"
    /\ Observes(p)
    /\ ptable' = [ptable EXCEPT ![p] = "none"]
    /\ procs' = [k \in 1..Len(procs) |->
                    IF procs[k].pid = p THEN [procs[k] EXCEPT !.running = FALSE]
                    ELSE procs[k]]
    /\ other' = [other EXCEPT !.procs = [k \in 1..Len(other.procs) |->
                    IF other.procs[k].pid = p THEN [other.procs[k] EXCEPT !.running = FALSE]
                    ELSE other.procs[k]]]
    /\ UNCHANGED <<rg, reach, envLeft, pidFile, baseDir, ss, ws, cs, cmd>>

EnvSpawn(p, c) ==
    /\ envLeft > 0
    /\ ptable[p] = "none"
    /\ p \notin HandlePids
    /\ Observes(p)
    /\ ptable' = [ptable EXCEPT ![p] = c]
    /\ envLeft' = envLeft - 1
    /\ UNCHANGED <<other, rg, reach, pidFile, baseDir, procs, ss, ws, cs, cmd>>

(***************************************************************************)
(* wait_for_services(host, ports, procs, timeout): one frame.  Time is     *)
(* counted in the units of time.sleep(1); ports is the list of the port    *)
(* map's service names in dict order.                                      *)
(***************************************************************************)
wsIdle ==
    [pc |-> "idle", ports |-> <<>>, timeout |-> 0, elapsed |-> 0, j |-> 0,
     ready |-> {}, result |-> FALSE, ret |-> "none",
     reached |-> {}, sawExit |-> FALSE, polled |-> -1, probesRound |-> 0,
     rounds |-> 0, sleeps |-> 0, host |-> "127.0.0.1", conns |-> {}]

\* start_time = time.time(); statuses = {name: {"ready": False} ...}
ws_call(ports, timeout, ret) ==
    [wsIdle EXCEPT !.pc = "loop", !.ports = ports, !.timeout = timeout, !.ret = ret]

\* Bind hosts of the configuration: all interfaces, loopback, one address.
Hosts == {"0.0.0.0", "127.0.0.1", "192.168.1.10"}

\* Mutant: the probe connects to the bind host as given.
check_host_literal(host) == host

\* check_host = "127.0.0.1" if host == "0.0.0.0" else host
check_host(host) == IF host = "0.0.0.0" THEN "127.0.0.1" ELSE host

\* service_is_accessible(check_host, port): a TCP connect to the port.
service_is_accessible(name) == name \in reach

SeqRange(q) == {q[k] : k \in 1..Len(q)}

AllReady(w) == \A k \in 1..Len(w.ports) : w.ports[k] \in w.ready

\* Mutant: the loop condition lets one more round in (<= for <).
wait_for_services_loop_one_more ==
    /\ ws.pc = "loop"
    /\ ws' = IF ws.elapsed <= ws.timeout
             THEN [ws EXCEPT !.pc = "poll", !.polled = -1, !.probesRound = 0,
                             !.rounds = ws.rounds + 1]
             ELSE [ws EXCEPT !.pc = "done", !.result = FALSE]
    /\ UNCHANGED <<other, rg, ptable, reach, envLeft, pidFile, baseDir, procs, ss, cs, cmd>>

\* while time.time() - start_time < timeout: ... / timed out: return False
wait_for_services_loop ==
    /\ ws.pc = "loop"
    /\ ws' = IF ws.elapsed < ws.timeout
             THEN [ws EXCEPT !.pc = "poll", !.polled = -1, !.probesRound = 0,
                             !.rounds = ws.rounds + 1]
             ELSE [ws EXCEPT !.pc = "done", !.result = FALSE]
    /\ UNCHANGED <<other, rg, ptable, reach, envLeft, pidFile, baseDir, procs, ss, cs, cmd>>

\* Mutant: an exited handle is logged and the round goes on.
wait_for_services_poll_goes_on ==
    /\ ws.pc = "poll"
    /\ LET any_failed == \E k \in 1..Len(procs) : ~procs[k].running
       IN ws' = [ws EXCEPT !.pc = IF Len(ws.ports) = 0 THEN "check" ELSE "probe",
                           !.j = 1, !.polled = Len(procs),
                           !.sawExit = ws.sawExit \/ any_failed]
    /\ UNCHANGED <<other, rg, ptable, reach, envLeft, pidFile, baseDir, procs, ss, cs, cmd>>

\* for name, proc in procs.items(): if proc.poll() is not None: any_failed = True
\* if any_failed: return False
wait_for_services_poll ==
    /\ ws.pc = "poll"
    /\ LET any_failed == \E k \in 1..Len(procs) : ~procs[k].running
       IN ws' = IF any_failed
                THEN [ws EXCEPT !.pc = "done", !.result = FALSE,
                                !.sawExit = TRUE, !.polled = Len(procs)]
                ELSE [ws EXCEPT !.pc = IF Len(ws.ports) = 0 THEN "check" ELSE "probe",
                                !.j = 1, !.polled = Len(procs)]
    /\ UNCHANGED <<other, rg, ptable, reach, envLeft, pidFile, baseDir, procs, ss, cs, cmd>>

\* Mutant: the ready flag follows the latest probe.
wait_for_services_probe_flaps ==
    /\ ws.pc = "probe"
    /\ LET name == ws.ports[ws.j]
           ok == service_is_accessible(name)
       IN ws' = [ws EXCEPT !.ready = IF ok THEN ws.ready \cup {name} ELSE ws.ready \ {name},
                           !.reached = IF name \in reach THEN ws.reached \cup {name}
                                       ELSE ws.reached,
                           !.probesRound = ws.probesRound + 1,
                           !.conns = ws.conns \cup {check_host(ws.host)},
                           !.j = ws.j + 1,
                           !.pc = IF ws.j = Len(ws.ports) THEN "check" ELSE "probe"]
    /\ UNCHANGED <<other, rg, ptable, reach, envLeft, pidFile, baseDir, procs, ss, cs, cmd>>

\* for name, port in ports.items(): if service_is_accessible(...): ready = True
wait_for_services_probe ==
    /\ ws.pc = "probe"
    /\ LET name == ws.ports[ws.j]
           ok == service_is_accessible(name)
       IN ws' = [ws EXCEPT !.ready = IF ok THEN ws.ready \cup {name} ELSE ws.ready,
                           !.reached = IF name \in reach THEN ws.reached \cup {name}
                                       ELSE ws.reached,
                           !.probesRound = ws.probesRound + 1,
                           !.conns = ws.conns \cup {check_host(ws.host)},
                           !.j = ws.j + 1,
                           !.pc = IF ws.j = Len(ws.ports) THEN "check" ELSE "probe"]
    /\ UNCHANGED <<other, rg, ptable, reach, envLeft, pidFile, baseDir, procs, ss, cs, cmd>>

\* Mutant: any() in place of all().
wait_for_services_check_any ==
    /\ ws.pc = "check"
    /\ ws' = IF ws.ready # {}
             THEN [ws EXCEPT !.pc = "done", !.result = TRUE]
             ELSE [ws EXCEPT !.pc = "sleep"]
    /\ UNCHANGED <<other, rg, ptable, reach, envLeft, pidFile, baseDir, procs, ss, cs, cmd>>

\* all_ready = all(...); if all_ready: return True; else time.sleep(1)
wait_for_services_check ==
    /\ ws.pc = "check"
    /\ ws' = IF AllReady(ws)
             THEN [ws EXCEPT !.pc = "done", !.result = TRUE]
             ELSE [ws EXCEPT !.pc = "sleep"]
    /\ UNCHANGED <<other, rg, ptable, reach, envLeft, pidFile, baseDir, procs, ss, cs, cmd>>

wait_for_services_sleep ==
    /\ ws.pc = "sleep"
    /\ ws' = [ws EXCEPT !.pc = "loop", !.elapsed = ws.elapsed + 1,
                        !.sleeps = ws.sleeps + 1]
    /\ UNCHANGED <<other, rg, ptable, reach, envLeft, pidFile, baseDir, procs, ss, cs, cmd>>

wait_for_services ==
    \/ wait_for_services_loop
    \/ wait_for_services_poll
    \/ wait_for_services_probe
    \/ wait_for_services_check
    \/ wait_for_services_sleep

\* A service starts or stops accepting connections on its port.
EnvPort(name) ==
    /\ ws.pc = "probe" /\ ws.ports[ws.j] = name
    /\ reach' = IF name \in reach THEN reach \ {name} ELSE reach \cup {name}
    /\ UNCHANGED <<other, rg, ptable, envLeft, pidFile, baseDir, procs, ss, ws, cs, cmd>>

(***************************************************************************)
(* check_services_running(pids): by-id probe, then the pgrep fallback.     *)
(***************************************************************************)
\* The pattern of a service name ("" for any other name: no search).
HasPattern(name) == name \in ServiceSet

\* pgrep -f pattern: the pids whose command line matches, in ascending order.
pgrep(pt, name) == {p \in DOMAIN pt : pt[p] = name}

MinOf(S) == CHOOSE x \in S : \A y \in S : x <= y

\* Mutant: no pattern search; a failed probe by id fails the entry.
csr_step_no_fallback(pt, acc, k) ==
    LET e == acc.pids[k]
        a1 == [acc EXCEPT !.probed = Append(acc.probed, e.pid)]
    IN IF os_kill(pt, e.pid) = "ok"
       THEN a1
       ELSE IF FALSE
            THEN LET a2 == [a1 EXCEPT !.searched = Append(a1.searched, e.name)]
                 IN IF pgrep(pt, e.name) # {}
                    THEN [a2 EXCEPT !.pids[k].pid = MinOf(pgrep(pt, e.name))]
                    ELSE [a2 EXCEPT !.all_running = FALSE]
            ELSE [a1 EXCEPT !.all_running = FALSE]

\* Mutant: a pattern match resolves the entry but the map keeps the old pid.
csr_step_no_writeback(pt, acc, k) ==
    LET e == acc.pids[k]
        a1 == [acc EXCEPT !.probed = Append(acc.probed, e.pid)]
    IN IF os_kill(pt, e.pid) = "ok"
       THEN a1
       ELSE IF HasPattern(e.name)
            THEN LET a2 == [a1 EXCEPT !.searched = Append(a1.searched, e.name)]
                 IN IF pgrep(pt, e.name) # {}
                    THEN a2
                    ELSE [a2 EXCEPT !.all_running = FALSE]
            ELSE [a1 EXCEPT !.all_running = FALSE]

\* One iteration of "for name, pid in pids.items()" on the accumulator
\* [pids, all_running, probed, searched].
csr_step(pt, acc, k) ==
    LET e == acc.pids[k]
        a1 == [acc EXCEPT !.probed = Append(acc.probed, e.pid)]
    IN IF os_kill(pt, e.pid) = "ok"
       THEN a1
       ELSE IF HasPattern(e.name)
            THEN LET a2 == [a1 EXCEPT !.searched = Append(a1.searched, e.name)]
                 IN IF pgrep(pt, e.name) # {}
                    THEN [a2 EXCEPT !.pids[k].pid = MinOf(pgrep(pt, e.name))]
                    ELSE [a2 EXCEPT !.all_running = FALSE]
            ELSE [a1 EXCEPT !.all_running = FALSE]

RECURSIVE csr_loop(_, _, _)
csr_loop(pt, acc, k) ==
    IF k > Len(acc.pids) THEN acc ELSE csr_loop(pt, csr_step(pt, acc, k), k + 1)

\* The call: [result, pids (the caller's map afterwards), probed, searched].
check_services_running(pt, pids) ==
    IF Len(pids) = 0
    THEN [result |-> FALSE, pids |-> pids, probed |-> <<>>, searched |-> <<>>]
    ELSE LET r == csr_loop(pt, [pids |-> pids, all_running |-> TRUE,
                                probed |-> <<>>, searched |-> <<>>], 1)
         IN [result |-> r.all_running, pids |-> r.pids,
             probed |-> r.probed, searched |-> r.searched]

csIdle ==
    [pc |-> "idle", in |-> <<>>, result |-> FALSE, pids |-> <<>>,
     probed |-> <<>>, searched |-> <<>>]

cs_done(in, r) ==
    [pc |-> "done", in |-> in, result |-> r.result, pids |-> r.pids,
     probed |-> r.probed, searched |-> r.searched]

(***************************************************************************)
(* The PID registry: write_pid_file and read_pid_file.  A line is a        *)
(* sequence of tokens: a name, "=", and the characters of the id.          *)
(***************************************************************************)
DigitTok == <<"0", "1", "2", "3", "4", "5", "6", "7", "8", "9">>

\* str(pid), as f"{pid}" formats an int.
RECURSIVE IntToTokens(_)
IntToTokens(n) ==
    IF n < 0 THEN <<"-">> \o IntToTokens(0 - n)
    ELSE IF n < 10 THEN <<DigitTok[n + 1]>>
    ELSE IntToTokens(n \div 10) \o <<DigitTok[(n % 10) + 1]>>

DigitVal(t) == (CHOOSE d \in 1..10 : DigitTok[d] = t) - 1

IsDigits(q) == Len(q) > 0 /\ \A k \in 1..Len(q) : q[k] \in SeqRange(DigitTok)

RECURSIVE DigitsToInt(_)
DigitsToInt(q) ==
    IF Len(q) = 0 THEN 0
    ELSE 10 * DigitsToInt(SubSeq(q, 1, Len(q) - 1)) + DigitVal(q[Len(q)])

\* int(pid_str): an optional sign and decimal digits, else ValueError.
ParseInt(q) ==
    IF IsDigits(q) THEN [ok |-> TRUE, val |-> DigitsToInt(q)]
    ELSE IF Len(q) > 1 /\ q[1] \in {"-", "+"} /\ IsDigits(Tail(q))
         THEN [ok |-> TRUE,
               val |-> IF q[1] = "-" THEN 0 - DigitsToInt(Tail(q)) ELSE DigitsToInt(Tail(q))]
         ELSE [ok |-> FALSE, val |-> 0]

RECURSIVE Flatten(_)
Flatten(q) == IF Len(q) = 0 THEN <<>> ELSE Head(q) \o Flatten(Tail(q))

\* Mutant: the entries are written without the line terminator.
write_pid_file_no_newline(pids) ==
    [exists |-> TRUE,
     lines |-> <<Flatten([k \in 1..Len(pids) |->
                             <<pids[k].name, "=">> \o IntToTokens(pids[k].pid)])>>]

\* f.write(f"{name}={pid}\n") for every entry, in dict order.
write_pid_file(pids) ==
    [exists |-> TRUE,
     lines |-> [k \in 1..Len(pids) |-> <<pids[k].name, "=">> \o IntToTokens(pids[k].pid)]]

\* pids[name] = value on a dict: replace in place, or insert at the end.
MapPut(m, name, pid) ==
    IF \E k \in 1..Len(m) : m[k].name = name
    THEN [k \in 1..Len(m) |-> IF m[k].name = name THEN [name |-> name, pid |-> pid] ELSE m[k]]
    ELSE Append(m, [name |-> name, pid |-> pid])

FirstEq(line) == CHOOSE k \in 1..Len(line) : line[k] = "=" /\ \A x \in 1..(k - 1) : line[x] # "="

\* name, pid_str = line.strip().split("=", 1): the name is the token before "=".
LineName(line) ==
    IF FirstEq(line) = 1 THEN "" ELSE IF FirstEq(line) = 2 THEN line[1] ELSE "?"

\* Mutant: a value that is no integer ends the reading.
RECURSIVE read_lines_stops_at_bad(_, _, _)
read_lines_stops_at_bad(lines, k, acc) ==
    IF k > Len(lines) THEN acc
    ELSE LET line == lines[k]
         IN IF "=" \in SeqRange(line)
            THEN LET v == ParseInt(SubSeq(line, FirstEq(line) + 1, Len(line)))
                 IN IF v.ok
                    THEN read_lines_stops_at_bad(lines, k + 1, MapPut(acc, LineName(line), v.val))
                    ELSE acc
            ELSE read_lines_stops_at_bad(lines, k + 1, acc)

RECURSIVE read_lines(_, _, _)
read_lines(lines, k, acc) ==
    IF k > Len(lines) THEN acc
    ELSE LET line == lines[k]
         IN IF "=" \in SeqRange(line)
            THEN LET v == ParseInt(SubSeq(line, FirstEq(line) + 1, Len(line)))
                 IN read_lines(lines, k + 1,
                               IF v.ok THEN MapPut(acc, LineName(line), v.val) ELSE acc)
            ELSE read_lines(lines, k + 1, acc)

\* read_pid_file(base_dir): None when the file is absent, else the parsed map.
read_pid_file(f) ==
    IF ~f.exists THEN [none |-> TRUE, pids |-> <<>>]
    ELSE [none |-> FALSE, pids |-> read_lines(f.lines, 1, <<>>)]

\* A caller's write_pid_file / read_pid_file pair: the map written (if any)
\* and the value read back.
rgIdle == [pc |-> "idle", map |-> <<>>, wrote |-> FALSE, out |-> [none |-> TRUE, pids |-> <<>>]]

(***************************************************************************)
(* The CLI invocation: start_command, stop_command, status_command,        *)
(* clean_command and force_quit_command of commands.py.                    *)
(***************************************************************************)
SweepPolls == 10

swIdle == [svc |-> 0, found |-> <<>>, idx |-> 0, n |-> 0]

cmdIdle ==
    [pc |-> "idle", op |-> "none", background |-> FALSE, force |-> FALSE,
     timeout |-> 0, existing |-> <<>>, present |-> {}, exit |-> -1,
     error |-> "none", path |-> "none", status |-> "none",
     sw |-> swIdle, sigs |-> {}, sawMatch |-> FALSE, file0 |-> NoFile,
     removed |-> FALSE, stopped |-> "none", waited |-> "none",
     interrupted |-> FALSE, calls |-> 0, prev |-> "none", table0 |-> <<>>,
     attempts |-> {}]

\* The invocation ends: a return (code 0), sys.exit(1), or an uncaught exception.
Finish(c, code, err) == [c EXCEPT !.pc = "exit", !.exit = code, !.error = err]

RECURSIVE SetToSeq(_)
SetToSeq(S) == IF S = {} THEN <<>> ELSE <<MinOf(S)>> \o SetToSeq(S \ {MinOf(S)})

\* The frames of an invocation that has not begun.
otherIdle == [cmd |-> cmdIdle, procs |-> <<>>, ss |-> ssIdle, ws |-> wsIdle, cs |-> csIdle]

FreePids ==
    {p \in Pids : ptable[p] = "none"}
        \ (HandlePids \cup {other.procs[k].pid : k \in 1..Len(other.procs)})

\* Two invocations of the tool run as two OS processes: the scheduler stops
\* one between two of its steps and runs the other.  Nothing in start_command
\* takes a lock, so every step boundary is a point where this can happen.
Switch ==
    /\ cmd.pc # "idle" \/ other.cmd.pc # "idle"
    /\ cmd' = other.cmd
    /\ procs' = other.procs
    /\ ss' = other.ss
    /\ ws' = other.ws
    /\ cs' = other.cs
    /\ other' = [cmd |-> cmd, procs |-> procs, ss |-> ss, ws |-> ws, cs |-> cs]
    /\ UNCHANGED <<rg, ptable, reach, envLeft, pidFile, baseDir>>

\* Some process matching one of the three service patterns is alive.
PatternAlive(pt) == \E p \in DOMAIN pt : pt[p] \in ServiceSet

\* pids = {name: proc.pid for name, proc in procs.items()}
HandleMap(h) == [k \in 1..Len(h) |-> [name |-> h[k].name, pid |-> h[k].pid]]

\* A new invocation of the tool: lokikit start|stop|status|clean|force-quit.
Invoke(op, background, force, timeout) ==
    /\ cmd.pc = "idle"
    /\ cmd' = [cmdIdle EXCEPT !.pc = op, !.op = op, !.background = background,
                              !.force = force, !.timeout = timeout,
                              !.file0 = pidFile]
    /\ procs' = <<>>
    /\ ss' = ssIdle
    /\ ws' = wsIdle
    /\ cs' = csIdle
    /\ UNCHANGED <<other, rg, ptable, reach, envLeft, pidFile, baseDir>>

\* Mutant: the "already running" branch lacks its return and goes on to launch.
start_command_check_falls_through ==
    /\ cmd.pc = "start"
    /\ LET rd == read_pid_file(pidFile)
           populated == Len(rd.pids) > 0
           chk == check_services_running(ptable, rd.pids)
           c1 == [cmd EXCEPT !.existing = chk.pids, !.sawMatch = PatternAlive(ptable)]
       IN /\ cs' = IF populated THEN cs_done(rd.pids, chk) ELSE cs
          /\ IF populated /\ chk.result /\ ~cmd.force
             THEN /\ cmd' = [c1 EXCEPT !.path = "already", !.pc = "start_bins"]
                  /\ ss' = ss
             ELSE IF populated /\ cmd.force
                  THEN /\ cmd' = [c1 EXCEPT !.path = "forced", !.pc = "start_stopping"]
                       /\ ss' = ss_call(chk.pids, "start")
                  ELSE /\ cmd' = [c1 EXCEPT !.path = "fresh", !.pc = "start_bins"]
                       /\ ss' = ss
    /\ UNCHANGED <<other, rg, ptable, reach, envLeft, pidFile, baseDir, procs, ws>>

\* Mutant: a populated registry whose services do not all check as running is
\* handled like --force: the survivors are stopped first.
start_command_check_stops_stale ==
    /\ cmd.pc = "start"
    /\ LET rd == read_pid_file(pidFile)
           populated == Len(rd.pids) > 0
           chk == check_services_running(ptable, rd.pids)
           c1 == [cmd EXCEPT !.existing = chk.pids, !.sawMatch = PatternAlive(ptable)]
       IN /\ cs' = IF populated THEN cs_done(rd.pids, chk) ELSE cs
          /\ IF populated /\ chk.result /\ ~cmd.force
             THEN /\ cmd' = IF cmd.background
                            THEN Finish([c1 EXCEPT !.path = "already"], 0, "none")
                            ELSE [c1 EXCEPT !.path = "already", !.pc = "pause"]
                  /\ ss' = ss
             ELSE IF populated
                  THEN /\ cmd' = [c1 EXCEPT !.path = "forced", !.pc = "start_stopping"]
                       /\ ss' = ss_call(chk.pids, "start")
                  ELSE /\ cmd' = [c1 EXCEPT !.path = "fresh", !.pc = "start_bins"]
                       /\ ss' = ss
    /\ UNCHANGED <<other, rg, ptable, reach, envLeft, pidFile, baseDir, procs, ws>>

\* start_command: existing_pids = read_pid_file(base_dir);
\* if existing_pids and check_services_running(existing_pids) and not force: ...
\* if existing_pids and force: stop_services(existing_pids)
start_command_check ==
    /\ cmd.pc = "start"
    /\ LET rd == read_pid_file(pidFile)
           populated == Len(rd.pids) > 0
           chk == check_services_running(ptable, rd.pids)
           c1 == [cmd EXCEPT !.existing = chk.pids, !.sawMatch = PatternAlive(ptable)]
       IN /\ cs' = IF populated THEN cs_done(rd.pids, chk) ELSE cs
          /\ IF populated /\ chk.result /\ ~cmd.force
             THEN /\ cmd' = IF cmd.background
                            THEN Finish([c1 EXCEPT !.path = "already"], 0, "none")
                            ELSE [c1 EXCEPT !.path = "already", !.pc = "pause"]
                  /\ ss' = ss
             ELSE IF populated /\ cmd.force
                  THEN /\ cmd' = [c1 EXCEPT !.path = "forced", !.pc = "start_stopping"]
                       /\ ss' = ss_call(chk.pids, "start")
                  ELSE /\ cmd' = [c1 EXCEPT !.path = "fresh", !.pc = "start_bins"]
                       /\ ss' = ss
    /\ UNCHANGED <<other, rg, ptable, reach, envLeft, pidFile, baseDir, procs, ws>>

\* Mutant: the registry file is left in place after the forced stop.
start_command_remove_keeps_file ==
    /\ cmd.pc = "start_stopping"
    /\ ss.pc = "done"
    /\ pidFile' = pidFile
    /\ cmd' = [cmd EXCEPT !.pc = "start_bins",
                          !.stopped = IF ss.success THEN "all" ELSE "some_failed"]
    /\ ss' = ssIdle
    /\ UNCHANGED <<other, rg, ptable, reach, envLeft, baseDir, procs, ws, cs>>

\* After stop_services returned: if os.path.exists(pid_file): os.remove(pid_file)
start_command_remove ==
    /\ cmd.pc = "start_stopping"
    /\ ss.pc = "done"
    /\ pidFile' = NoFile
    /\ cmd' = [cmd EXCEPT !.pc = "start_bins",
                          !.stopped = IF ss.success THEN "all" ELSE "some_failed"]
    /\ ss' = ssIdle
    /\ UNCHANGED <<other, rg, ptable, reach, envLeft, baseDir, procs, ws, cs>>

\* get_binaries / get_binary_path: only grafana's path can be None (the paths
\* of loki and promtail are joined, not looked up); then sys.exit(1).
\* Otherwise ensure_dir(logs_dir).  The binaries live under the base directory.
start_command_binaries(present) ==
    /\ cmd.pc = "start_bins"
    /\ baseDir \/ present = {}
    /\ IF "grafana" \notin present
       THEN /\ cmd' = Finish([cmd EXCEPT !.present = present], 1, "none")
            /\ baseDir' = baseDir
       ELSE /\ cmd' = [cmd EXCEPT !.present = present, !.pc = "start_launch"]
            /\ baseDir' = TRUE
    /\ UNCHANGED <<other, rg, ptable, reach, envLeft, pidFile, procs, ss, ws, cs>>

\* Mutant: a failed launch is caught; the children launched so far are
\* terminated before start gives up.
start_command_launch_cleans_up ==
    /\ cmd.pc = "start_launch"
    /\ LET name == ServiceNames[Len(procs) + 1]
       IN IF name \in cmd.present
          THEN /\ FreePids # {}
               /\ LET pid == MinOf(FreePids)
                  IN /\ ptable' = [ptable EXCEPT ![pid] = name]
                     /\ procs' = Append(procs, [name |-> name, pid |-> pid, running |-> TRUE])
               /\ IF Len(procs) + 1 = Len(ServiceNames)
                  THEN /\ cmd' = [cmd EXCEPT !.pc = "start_waiting"]
                       /\ ws' = ws_call(ServiceNames, cmd.timeout, "start")
                  ELSE /\ cmd' = cmd
                       /\ ws' = ws
          ELSE /\ cmd' = Finish([cmd EXCEPT !.sigs =
                                    {<<procs[k].pid, "TERM">> : k \in 1..Len(procs)}],
                                1, "OSError")
               /\ UNCHANGED <<other, rg, ptable, procs, ws>>
    /\ UNCHANGED <<other, rg, reach, envLeft, pidFile, baseDir, ss, cs>>

\* Mutant: the readiness wait begins after the second launch.
start_command_launch_waits_early ==
    /\ cmd.pc = "start_launch"
    /\ LET name == ServiceNames[Len(procs) + 1]
       IN IF name \in cmd.present
          THEN /\ FreePids # {}
               /\ LET pid == MinOf(FreePids)
                  IN /\ ptable' = [ptable EXCEPT ![pid] = name]
                     /\ procs' = Append(procs, [name |-> name, pid |-> pid, running |-> TRUE])
               /\ IF Len(procs) + 1 = Len(ServiceNames) - 1
                  THEN /\ cmd' = [cmd EXCEPT !.pc = "start_waiting"]
                       /\ ws' = ws_call(ServiceNames, cmd.timeout, "start")
                  ELSE /\ cmd' = cmd
                       /\ ws' = ws
          ELSE /\ cmd' = Finish(cmd, 1, "OSError")
               /\ UNCHANGED <<other, rg, ptable, procs, ws>>
    /\ UNCHANGED <<other, rg, reach, envLeft, pidFile, baseDir, ss, cs>>

\* procs[name] = start_process(cmd, log): subprocess.Popen, in the order loki,
\* promtail, grafana; a binary that cannot be executed raises OSError.  After
\* the third launch: wait_for_services(host, ports, procs, timeout).
start_command_launch ==
    /\ cmd.pc = "start_launch"
    /\ LET name == ServiceNames[Len(procs) + 1]
       IN IF name \in cmd.present
          THEN /\ FreePids # {}
               /\ LET pid == MinOf(FreePids)
                  IN /\ ptable' = [ptable EXCEPT ![pid] = name]
                     /\ procs' = Append(procs, [name |-> name, pid |-> pid, running |-> TRUE])
               /\ IF Len(procs) + 1 = Len(ServiceNames)
                  THEN /\ cmd' = [cmd EXCEPT !.pc = "start_waiting"]
                       /\ ws' = ws_call(ServiceNames, cmd.timeout, "start")
                  ELSE /\ cmd' = cmd
                       /\ ws' = ws
          ELSE /\ cmd' = Finish(cmd, 1, "OSError")
               /\ UNCHANGED <<other, rg, ptable, procs, ws>>
    /\ UNCHANGED <<other, rg, reach, envLeft, pidFile, baseDir, ss, cs>>

\* Mutant: the registry is written only if no registry file is there yet.
start_command_write_keeps_first ==
    /\ cmd.pc = "start_waiting"
    /\ ws.pc = "done"
    /\ pidFile' = IF pidFile.exists THEN pidFile ELSE write_pid_file(HandleMap(procs))
    /\ LET c1 == [cmd EXCEPT !.waited = IF ws.result THEN "ready" ELSE "failed"]
       IN cmd' = IF cmd.background THEN Finish(c1, 0, "none")
                 ELSE [c1 EXCEPT !.pc = "start_fg"]
    /\ ws' = wsIdle
    /\ UNCHANGED <<other, rg, ptable, reach, envLeft, baseDir, procs, ss, cs>>

\* Mutant: a failed readiness wait aborts start before the registry is written.
start_command_write_aborts ==
    /\ cmd.pc = "start_waiting"
    /\ ws.pc = "done"
    /\ pidFile' = IF ws.result THEN write_pid_file(HandleMap(procs)) ELSE pidFile
    /\ LET c1 == [cmd EXCEPT !.waited = IF ws.result THEN "ready" ELSE "failed"]
       IN cmd' = IF ~ws.result THEN Finish(c1, 1, "none")
                 ELSE IF cmd.background THEN Finish(c1, 0, "none")
                 ELSE [c1 EXCEPT !.pc = "start_fg"]
    /\ ws' = wsIdle
    /\ UNCHANGED <<other, rg, ptable, reach, envLeft, baseDir, procs, ss, cs>>

\* After wait_for_services returned (its result is not used):
\* pid_file = write_pid_file(pids, base_dir); if background: return
start_command_write ==
    /\ cmd.pc = "start_waiting"
    /\ ws.pc = "done"
    /\ pidFile' = write_pid_file(HandleMap(procs))
    /\ LET c1 == [cmd EXCEPT !.waited = IF ws.result THEN "ready" ELSE "failed"]
       IN cmd' = IF cmd.background THEN Finish(c1, 0, "none")
                 ELSE [c1 EXCEPT !.pc = "start_fg"]
    /\ ws' = wsIdle
    /\ UNCHANGED <<other, rg, ptable, reach, envLeft, baseDir, procs, ss, cs>>

\* while all(proc.poll() is None for proc in procs.values()): time.sleep(1)
\* then "One or more services have terminated unexpectedly" and return.
start_command_foreground ==
    /\ cmd.pc = "start_fg"
    /\ \E k \in 1..Len(procs) : ~procs[k].running
    /\ cmd' = Finish(cmd, 0, "none")
    /\ UNCHANGED <<other, rg, ptable, reach, envLeft, pidFile, baseDir, procs, ss, ws, cs>>

\* Ctrl+C at a suspension point of start: signal.pause() and the foreground
\* loop catch KeyboardInterrupt (the latter calls proc.terminate() on every
\* handle, which signals the children still running); the sleeps inside
\* wait_for_services and stop_services do not, and the exception ends the
\* invocation.
Interrupt ==
    /\ \/ /\ cmd.pc = "pause"
          /\ cmd' = Finish([cmd EXCEPT !.interrupted = TRUE], 0, "none")
       \/ /\ cmd.pc = "start_fg"
          /\ cmd' = Finish([cmd EXCEPT !.interrupted = TRUE, !.sigs =
                              {<<procs[k].pid, "TERM">> : k \in {x \in 1..Len(procs) : procs[x].running}}],
                           0, "none")
       \/ /\ cmd.pc = "start_waiting"
          /\ ws.pc = "sleep"
          /\ cmd' = Finish([cmd EXCEPT !.interrupted = TRUE], 1, "KeyboardInterrupt")
       \/ /\ cmd.pc = "start_stopping"
          /\ ss.pc \in {"poll", "kpoll"}
          /\ cmd' = Finish([cmd EXCEPT !.interrupted = TRUE], 1, "KeyboardInterrupt")
    /\ UNCHANGED <<other, rg, ptable, reach, envLeft, pidFile, baseDir, procs, ss, ws, cs>>

start_command ==
    \/ start_command_check
    \/ start_command_remove
    \/ \E present \in {ServiceSet \ x : x \in {{}, {"loki"}, {"promtail"}, {"grafana"}, ServiceSet}} :
          start_command_binaries(present)
    \/ start_command_launch
    \/ start_command_write
    \/ start_command_foreground

\* stop_command: pids = read_pid_file(base_dir); if pids:
\* services_stopped = stop_services(pids, force=force).  stop_services(pids)
\* of process.py takes no force parameter, so the call raises TypeError.
\* Without a populated registry the sweep by pattern begins.
stop_command_read ==
    /\ cmd.pc = "stop"
    /\ LET rd == read_pid_file(pidFile)
       IN cmd' = IF Len(rd.pids) > 0
                 THEN Finish([cmd EXCEPT !.existing = rd.pids], 1, "TypeError")
                 ELSE [cmd EXCEPT !.pc = "stop_sweep", !.sw = [swIdle EXCEPT !.svc = 1],
                                  !.sawMatch = PatternAlive(ptable)]
    /\ UNCHANGED <<other, rg, ptable, reach, envLeft, pidFile, baseDir, procs, ss, ws, cs>>

\* The next pid of pids_found, or the next of the three patterns.
sw_next(c) ==
    IF c.sw.idx < Len(c.sw.found)
    THEN [c EXCEPT !.pc = "stop_signal", !.sw.idx = c.sw.idx + 1, !.sw.n = 0]
    ELSE [c EXCEPT !.pc = "stop_sweep", !.sw = [swIdle EXCEPT !.svc = c.sw.svc + 1]]

\* for name, pattern in [...]: result = subprocess.run(["pgrep", "-f", pattern])
stop_command_pgrep ==
    /\ cmd.pc = "stop_sweep"
    /\ cmd.sw.svc <= Len(ServiceNames)
    /\ LET found == SetToSeq(pgrep(ptable, ServiceNames[cmd.sw.svc]))
       IN cmd' = IF Len(found) = 0
                 THEN [cmd EXCEPT !.sw.svc = cmd.sw.svc + 1]
                 ELSE [cmd EXCEPT !.pc = "stop_signal",
                                  !.sw = [cmd.sw EXCEPT !.found = found, !.idx = 1, !.n = 0]]
    /\ UNCHANGED <<other, rg, ptable, reach, envLeft, pidFile, baseDir, procs, ss, ws, cs>>

\* if force: os.kill(pid, SIGKILL) else: os.kill(pid, SIGTERM) and the poll
\* loop; an OSError is logged and the next pid follows.
stop_command_signal ==
    /\ cmd.pc = "stop_signal"
    /\ LET pid == cmd.sw.found[cmd.sw.idx]
           r == os_kill(ptable, pid)
           c1 == [cmd EXCEPT !.sigs = cmd.sigs \cup
                                {<<pid, IF cmd.force THEN "KILL" ELSE "TERM">>}]
       IN cmd' = IF r # "ok" THEN sw_next(cmd)
                 ELSE IF cmd.force THEN sw_next(c1)
                 ELSE [c1 EXCEPT !.pc = "stop_poll", !.sw.n = 0]
    /\ UNCHANGED <<other, rg, ptable, reach, envLeft, pidFile, baseDir, procs, ss, ws, cs>>

\* for _ in range(10): os.kill(pid, 0); time.sleep(0.1) / except OSError: break
\* else: os.kill(pid, SIGKILL)
stop_command_poll ==
    /\ cmd.pc = "stop_poll"
    /\ LET pid == cmd.sw.found[cmd.sw.idx]
           r == os_kill(ptable, pid)
       IN cmd' = IF r # "ok" THEN sw_next(cmd)
                 ELSE IF cmd.sw.n + 1 = SweepPolls
                      THEN [cmd EXCEPT !.pc = "stop_kill"]
                      ELSE [cmd EXCEPT !.sw.n = cmd.sw.n + 1]
    /\ UNCHANGED <<other, rg, ptable, reach, envLeft, pidFile, baseDir, procs, ss, ws, cs>>

stop_command_kill ==
    /\ cmd.pc = "stop_kill"
    /\ LET pid == cmd.sw.found[cmd.sw.idx]
           r == os_kill(ptable, pid)
       IN cmd' = IF r = "ok"
                 THEN sw_next([cmd EXCEPT !.sigs = cmd.sigs \cup {<<pid, "KILL">>}])
                 ELSE sw_next(cmd)
    /\ UNCHANGED <<other, rg, ptable, reach, envLeft, pidFile, baseDir, procs, ss, ws, cs>>

\* if os.path.exists(pid_file): os.remove(pid_file); "Operation completed."
stop_command_remove ==
    /\ cmd.pc = "stop_sweep"
    /\ cmd.sw.svc > Len(ServiceNames)
    /\ pidFile' = NoFile
    /\ cmd' = Finish([cmd EXCEPT !.removed = pidFile.exists], 0, "none")
    /\ UNCHANGED <<other, rg, ptable, reach, envLeft, baseDir, procs, ss, ws, cs>>

stop_command ==
    \/ stop_command_read
    \/ stop_command_pgrep
    \/ stop_command_signal
    \/ stop_command_poll
    \/ stop_command_kill
    \/ stop_command_remove

\* The same command line once more, after the first status returned and with
\* no start or stop in between.
InvokeStatusAgain ==
    /\ cmd.pc = "exit"
    /\ cmd.op = "status"
    /\ cmd.calls = 1
    /\ cmd' = [cmd EXCEPT !.pc = "status", !.prev = cmd.status]
    /\ cs' = csIdle
    /\ UNCHANGED <<other, rg, ptable, reach, envLeft, pidFile, baseDir, procs, ss, ws>>

\* Mutant: status tidies up, deleting a registry whose services do not check
\* as running.
status_command_prunes ==
    /\ cmd.pc = "status"
    /\ LET rd == read_pid_file(pidFile)
           populated == Len(rd.pids) > 0
           chk == check_services_running(ptable, rd.pids)
           running_from_pid == populated /\ chk.result
           running_services == {name \in ServiceSet : pgrep(ptable, name) # {}}
       IN /\ cs' = IF populated THEN cs_done(rd.pids, chk) ELSE cs
          /\ pidFile' = IF populated /\ ~chk.result THEN NoFile ELSE pidFile
          /\ cmd' = Finish([cmd EXCEPT !.existing = chk.pids,
                                       !.sawMatch = PatternAlive(ptable),
                                       !.calls = cmd.calls + 1,
                                       !.table0 = IF cmd.calls = 0 THEN ptable ELSE cmd.table0,
                                       !.status = IF running_from_pid THEN "normal"
                                                  ELSE IF running_services # {} THEN "out_of_sync"
                                                  ELSE "not_running"],
                           0, "none")
    /\ UNCHANGED <<other, rg, ptable, reach, envLeft, baseDir, procs, ss, ws>>

\* Mutant: without a populated registry status reports "not running" at once,
\* skipping the sweep of the patterns.
status_command_no_sweep ==
    /\ cmd.pc = "status"
    /\ LET rd == read_pid_file(pidFile)
           populated == Len(rd.pids) > 0
           chk == check_services_running(ptable, rd.pids)
           running_from_pid == populated /\ chk.result
           running_services == IF populated
                               THEN {name \in ServiceSet : pgrep(ptable, name) # {}}
                               ELSE {}
       IN /\ cs' = IF populated THEN cs_done(rd.pids, chk) ELSE cs
          /\ cmd' = Finish([cmd EXCEPT !.existing = chk.pids,
                                       !.sawMatch = PatternAlive(ptable),
                                       !.calls = cmd.calls + 1,
                                       !.table0 = IF cmd.calls = 0 THEN ptable ELSE cmd.table0,
                                       !.status = IF running_from_pid THEN "normal"
                                                  ELSE IF running_services # {} THEN "out_of_sync"
                                                  ELSE "not_running"],
                           0, "none")
    /\ UNCHANGED <<other, rg, ptable, reach, envLeft, pidFile, baseDir, procs, ss, ws>>

\* status_command: pids = read_pid_file(base_dir); running_from_pid =
\* check_services_running(pids) if pids; then the sweep of the three patterns
\* with pgrep; then one of the three reports.  Nothing is written or signalled.
status_command ==
    /\ cmd.pc = "status"
    /\ LET rd == read_pid_file(pidFile)
           populated == Len(rd.pids) > 0
           chk == check_services_running(ptable, rd.pids)
           running_from_pid == populated /\ chk.result
           running_services == {name \in ServiceSet : pgrep(ptable, name) # {}}
       IN /\ cs' = IF populated THEN cs_done(rd.pids, chk) ELSE cs
          /\ cmd' = Finish([cmd EXCEPT !.existing = chk.pids,
                                       !.sawMatch = PatternAlive(ptable),
                                       !.calls = cmd.calls + 1,
                                       !.table0 = IF cmd.calls = 0 THEN ptable ELSE cmd.table0,
                                       !.status = IF running_from_pid THEN "normal"
                                                  ELSE IF running_services # {} THEN "out_of_sync"
                                                  ELSE "not_running"],
                           0, "none")
    /\ UNCHANGED <<other, rg, ptable, reach, envLeft, pidFile, baseDir, procs, ss, ws>>

\* force_quit_command, step 1: if os.path.exists(pid_file):
\* pids = read_pid_file(base_dir); if pids: the loop of kills; then the removal.
force_quit_command_read ==
    /\ cmd.pc = "force_quit"
    /\ LET rd == read_pid_file(pidFile)
       IN cmd' = IF ~pidFile.exists
                 THEN [cmd EXCEPT !.pc = "fq_sweep", !.sw = [swIdle EXCEPT !.svc = 1]]
                 ELSE IF Len(rd.pids) > 0
                      THEN [cmd EXCEPT !.pc = "fq_registry", !.existing = rd.pids,
                                       !.sw = [swIdle EXCEPT !.idx = 1]]
                      ELSE [cmd EXCEPT !.pc = "fq_remove"]
    /\ UNCHANGED <<other, rg, ptable, reach, envLeft, pidFile, baseDir, procs, ss, ws, cs>>

\* The end of one pass of the registry loop: the next pid, or the removal.
fq_next(c) ==
    IF c.sw.idx < Len(c.existing)
    THEN [c EXCEPT !.sw.idx = c.sw.idx + 1]
    ELSE [c EXCEPT !.pc = "fq_remove"]

\* Mutant: the first kill that raises ends the registry loop and the command.
force_quit_command_registry_gives_up ==
    /\ cmd.pc = "fq_registry"
    /\ LET pid == cmd.existing[cmd.sw.idx].pid
           r == os_kill(ptable, pid)
           c1 == [cmd EXCEPT !.attempts = cmd.attempts \cup {pid}]
       IN cmd' = IF r = "ok"
                 THEN fq_next([c1 EXCEPT !.sigs = cmd.sigs \cup {<<pid, "KILL">>}])
                 ELSE Finish(c1, 1, "OSError")
    /\ UNCHANGED <<other, rg, ptable, reach, envLeft, pidFile, baseDir, procs, ss, ws, cs>>

\* for name, pid in pids.items(): try: os.kill(pid, signal.SIGKILL)
\* except OSError: logged (errno 3: "was not running"), and the loop goes on.
force_quit_command_registry ==
    /\ cmd.pc = "fq_registry"
    /\ LET pid == cmd.existing[cmd.sw.idx].pid
           r == os_kill(ptable, pid)
           c1 == [cmd EXCEPT !.attempts = cmd.attempts \cup {pid}]
       IN cmd' = IF r = "ok"
                 THEN fq_next([c1 EXCEPT !.sigs = cmd.sigs \cup {<<pid, "KILL">>}])
                 ELSE fq_next(c1)
    /\ UNCHANGED <<other, rg, ptable, reach, envLeft, pidFile, baseDir, procs, ss, ws, cs>>

\* try: os.remove(pid_file); the file is the tool's own and the removal
\* succeeds, as in start_command and stop_command.
force_quit_command_remove ==
    /\ cmd.pc = "fq_remove"
    /\ pidFile' = NoFile
    /\ cmd' = [cmd EXCEPT !.pc = "fq_sweep", !.removed = TRUE,
                          !.sw = [swIdle EXCEPT !.svc = 1]]
    /\ UNCHANGED <<other, rg, ptable, reach, envLeft, baseDir, procs, ss, ws, cs>>

\* Step 2, for name, pattern in service_patterns: pgrep -f pattern.
force_quit_command_pgrep ==
    /\ cmd.pc = "fq_sweep"
    /\ cmd.sw.svc <= Len(ServiceNames)
    /\ LET found == SetToSeq(pgrep(ptable, ServiceNames[cmd.sw.svc]))
       IN cmd' = IF Len(found) = 0
                 THEN [cmd EXCEPT !.sw.svc = cmd.sw.svc + 1]
                 ELSE [cmd EXCEPT !.pc = "fq_kill",
                                  !.sw = [cmd.sw EXCEPT !.found = found, !.idx = 1]]
    /\ UNCHANGED <<other, rg, ptable, reach, envLeft, pidFile, baseDir, procs, ss, ws, cs>>

\* for pid in pids_found: try: os.kill(pid, signal.SIGKILL)
\* except OSError: logged, and the next pid follows.
force_quit_command_kill ==
    /\ cmd.pc = "fq_kill"
    /\ LET pid == cmd.sw.found[cmd.sw.idx]
           r == os_kill(ptable, pid)
           c1 == [cmd EXCEPT !.attempts = cmd.attempts \cup {pid},
                             !.sigs = IF r = "ok" THEN cmd.sigs \cup {<<pid, "KILL">>}
                                      ELSE cmd.sigs]
       IN cmd' = IF cmd.sw.idx < Len(cmd.sw.found)
                 THEN [c1 EXCEPT !.sw.idx = cmd.sw.idx + 1]
                 ELSE [c1 EXCEPT !.pc = "fq_sweep",
                                 !.sw = [swIdle EXCEPT !.svc = cmd.sw.svc + 1]]
    /\ UNCHANGED <<other, rg, ptable, reach, envLeft, pidFile, baseDir, procs, ss, ws, cs>>

\* Step 3: "All lokikit processes have been terminated"; the command returns.
force_quit_command_done ==
    /\ cmd.pc = "fq_sweep"
    /\ cmd.sw.svc > Len(ServiceNames)
    /\ cmd' = Finish(cmd, 0, "none")
    /\ UNCHANGED <<other, rg, ptable, reach, envLeft, pidFile, baseDir, procs, ss, ws, cs>>

force_quit_command ==
    \/ force_quit_command_read
    \/ force_quit_command_registry
    \/ force_quit_command_remove
    \/ force_quit_command_pgrep
    \/ force_quit_command_kill
    \/ force_quit_command_done

\* Mutant: the warning about running services is not followed by sys.exit(1).
clean_command_goes_on(rmtree_ok) ==
    /\ cmd.pc = "clean"
    /\ LET rd == read_pid_file(pidFile)
           populated == Len(rd.pids) > 0
           chk == check_services_running(ptable, rd.pids)
           c1 == [cmd EXCEPT !.existing = chk.pids, !.sawMatch = PatternAlive(ptable)]
       IN /\ cs' = IF populated THEN cs_done(rd.pids, chk) ELSE cs
          /\ IF baseDir
             THEN IF rmtree_ok
                  THEN /\ baseDir' = FALSE
                       /\ pidFile' = NoFile
                       /\ cmd' = Finish([c1 EXCEPT !.removed = TRUE], 0, "none")
                  ELSE /\ cmd' = Finish(c1, 1, "none")
                       /\ UNCHANGED <<other, rg, pidFile, baseDir>>
             ELSE /\ cmd' = Finish(c1, 0, "none")
                  /\ UNCHANGED <<other, rg, pidFile, baseDir>>
    /\ UNCHANGED <<other, rg, ptable, reach, envLeft, procs, ss, ws>>

\* clean_command: abort with exit code 1 while the registry's services check
\* as running; else shutil.rmtree(base_dir), which may fail with OSError.
clean_command(rmtree_ok) ==
    /\ cmd.pc = "clean"
    /\ LET rd == read_pid_file(pidFile)
           populated == Len(rd.pids) > 0
           chk == check_services_running(ptable, rd.pids)
           c1 == [cmd EXCEPT !.existing = chk.pids, !.sawMatch = PatternAlive(ptable)]
       IN /\ cs' = IF populated THEN cs_done(rd.pids, chk) ELSE cs
          /\ IF populated /\ chk.result
             THEN /\ cmd' = Finish(c1, 1, "none")
                  /\ UNCHANGED <<other, rg, pidFile, baseDir>>
             ELSE IF baseDir
                  THEN IF rmtree_ok
                       THEN /\ baseDir' = FALSE
                            /\ pidFile' = NoFile
                            /\ cmd' = Finish([c1 EXCEPT !.removed = TRUE], 0, "none")
                       ELSE /\ cmd' = Finish(c1, 1, "none")
                            /\ UNCHANGED <<other, rg, pidFile, baseDir>>
                  ELSE /\ cmd' = Finish(c1, 0, "none")
                       /\ UNCHANGED <<other, rg, pidFile, baseDir>>
    /\ UNCHANGED <<other, rg, ptable, reach, envLeft, procs, ss, ws>>

(***************************************************************************)
(* Specification of stop_services alone, on every small id map.            *)
(***************************************************************************)

StopClasses == {"none", "other", "foreign"}

\* Id maps of 1..MaxMap entries with distinct names, in service order.
IdMaps(n, pidset) ==
    UNION {{m \in [1..k -> [name : ServiceSet, pid : pidset]] :
              \A a, b \in 1..k : a < b =>
                 \E x, y \in 1..3 : /\ x < y
                                    /\ ServiceNames[x] = m[a].name
                                    /\ ServiceNames[y] = m[b].name}
           : k \in 1..n}

UnitTable(classes) ==
    {pt \in [Pids -> classes \cup {"none"}] : \A p \in Pids \ UnitPids : pt[p] = "none"}

InitStop ==
    /\ ptable \in UnitTable(StopClasses)
    /\ reach = {}
    /\ envLeft = MaxSpawn
    /\ pidFile = NoFile
    /\ baseDir = TRUE
    /\ procs = <<>>
    /\ \E m \in IdMaps(MaxMap, UnitPids) :
          /\ ss = ss_call(m, "unit")
          /\ \A p \in Pids : ptable[p] # "none" => \E k \in 1..Len(m) : m[k].pid = p
    /\ ws = wsIdle
    /\ cs = csIdle
    /\ cmd = cmdIdle
    /\ rg = rgIdle
    /\ other = otherIdle

NextStop ==
    \/ stop_services
    \/ \E p \in UnitPids : EnvExit(p)
    \/ \E p \in UnitPids, c \in StopClasses \ {"none"} : EnvSpawn(p, c)

SpecStop == InitStop /\ [][NextStop]_vars

\* C1: in stop_services the kill signal goes to a pid only after the terminate
\* signal was sent to it and all TermPolls polls plus the final probe saw it
\* alive; never to a pid that a by-id probe of the window reported gone.
C1_KillOnlyAfterWholeWindow ==
    ss.pc \in {"kill", "kpoll"} =>
        /\ ss.pids[ss.i].pid \in ss.termSent
        /\ ss.aliveObs = TermPolls + 1
        /\ ~ss.goneObs

(***************************************************************************)
(* Specification of wait_for_services alone: the first k services are      *)
(* launched (one handle each), any subset of their ports is reachable.     *)
(***************************************************************************)
Handles(k) ==
    [x \in 1..k |-> [name |-> ServiceNames[x], pid |-> x, running |-> TRUE]]

InitWait ==
    \E k \in 1..MaxUnitPid, t \in 0..MaxTimeout, h \in Hosts :
        /\ k <= Len(ServiceNames)
        /\ ptable = [p \in Pids |-> IF p <= k THEN ServiceNames[p] ELSE "none"]
        /\ reach \in SUBSET {ServiceNames[x] : x \in 1..k}
        /\ envLeft = MaxSpawn
        /\ pidFile = NoFile
        /\ baseDir = TRUE
        /\ procs = Handles(k)
        /\ ss = ssIdle
        /\ ws = [ws_call(SubSeq(ServiceNames, 1, k), t, "unit") EXCEPT !.host = h]
        /\ cs = csIdle
        /\ cmd = cmdIdle
        /\ rg = rgIdle
        /\ other = otherIdle

NextWait ==
    \/ wait_for_services
    \/ \E p \in UnitPids : EnvExit(p)
    \/ \E name \in SeqRange(ws.ports) : EnvPort(name)

SpecWait == InitWait /\ [][NextWait]_vars

\* C3: wait_for_services returns True only when every service of the port map
\* is marked ready, each after a successful probe of this call, and it returns
\* in the first round that ends with all ready: it never sleeps with all ready
\* and a True result comes with one sleep less than rounds.
C3_TrueOnlyWhenAllReady ==
    /\ (ws.pc = "done" /\ ws.result) =>
            /\ \A k \in 1..Len(ws.ports) : ws.ports[k] \in ws.ready
            /\ ws.ready \subseteq ws.reached
            /\ ws.sleeps = ws.rounds - 1
            /\ ws.elapsed < ws.timeout
    /\ ws.pc \in {"sleep", "loop", "poll"} => ~AllReady(ws)

C3_Witness ==
    /\ ws.pc = "done" /\ ws.result
    /\ Len(ws.ports) >= 2
    /\ ws.rounds >= 2
    /\ ws.elapsed < ws.timeout

\* C4: in every round all handles are polled before any port is probed, and a
\* handle seen exited ends the call with False in that round, without a probe,
\* whatever the ports and the ready flags are.
C4_ExitedHandleNeverReady ==
    /\ ws.probesRound > 0 => ws.polled = Len(procs)
    /\ ws.pc \in {"probe", "check", "sleep"} => ws.polled = Len(procs)
    /\ ws.sawExit => ws.pc = "done" /\ ~ws.result /\ ws.probesRound = 0
    /\ (ws.pc = "done" /\ ws.result) => ~ws.sawExit

C4_Witness ==
    /\ ws.sawExit
    /\ ws.pc = "done"
    /\ ws.rounds >= 2
    /\ ws.ready # {}
    /\ ws.ready \subseteq reach

(***************************************************************************)
(* Specification of check_services_running alone, on every small id map    *)
(* (the empty one and a name without a pattern included).                  *)
(***************************************************************************)
CheckNames == <<"loki", "promtail", "grafana", "redis">>

CheckMaps ==
    {<<>>} \cup
    UNION {{m \in [1..k -> [name : SeqRange(CheckNames), pid : UnitPids]] :
              \A a, b \in 1..k : a < b =>
                 \E x, y \in 1..Len(CheckNames) : /\ x < y
                                                  /\ CheckNames[x] = m[a].name
                                                  /\ CheckNames[y] = m[b].name}
           : k \in 1..MaxMap}

InitCheck ==
    /\ ptable \in UnitTable(Classes)
    /\ reach = {}
    /\ envLeft = MaxSpawn
    /\ pidFile = NoFile
    /\ baseDir = TRUE
    /\ procs = <<>>
    /\ ss = ssIdle
    /\ ws = wsIdle
    /\ \E m \in CheckMaps : cs = [csIdle EXCEPT !.pc = "call", !.in = m]
    /\ cmd = cmdIdle
    /\ rg = rgIdle
    /\ other = otherIdle

CheckCall ==
    /\ cs.pc = "call"
    /\ cs' = cs_done(cs.in, check_services_running(ptable, cs.in))
    /\ UNCHANGED <<other, rg, ptable, reach, envLeft, pidFile, baseDir, procs, ss, ws, cmd>>

NextCheck ==
    \/ CheckCall
    \/ \E p \in UnitPids : EnvExit(p)

SpecCheck == InitCheck /\ [][NextCheck]_vars

\* An entry resolves to a live process: signal 0 succeeds on its pid, or the
\* pattern search for its service finds a process.
Resolves(pt, e) ==
    \/ os_kill(pt, e.pid) = "ok"
    \/ HasPattern(e.name) /\ \E p \in DOMAIN pt : pt[p] = e.name

\* C5: check_services_running is True iff the map is non-empty and every entry
\* resolves to a live process by pid or by pattern; every entry is probed by
\* id, in order, and the pattern search runs exactly for the entries with a
\* pattern whose by-id probe failed.
C5_CheckIffAllResolve ==
    cs.pc = "done" =>
        /\ cs.result = (Len(cs.in) > 0 /\ \A k \in 1..Len(cs.in) : Resolves(ptable, cs.in[k]))
        /\ cs.probed = [k \in 1..Len(cs.in) |-> cs.in[k].pid]
        /\ \A k \in 1..Len(cs.in) :
              (cs.in[k].name \in SeqRange(cs.searched)) =>
                  os_kill(ptable, cs.in[k].pid) # "ok"
        /\ \A k \in 1..Len(cs.in) :
              (os_kill(ptable, cs.in[k].pid) # "ok" /\ HasPattern(cs.in[k].name)) =>
                  cs.in[k].name \in SeqRange(cs.searched)

\* A failed first entry, a second entry found only by the pattern search.
C5_Witness ==
    /\ cs.pc = "done"
    /\ Len(cs.in) = 2
    /\ ~Resolves(ptable, cs.in[1])
    /\ os_kill(ptable, cs.in[2].pid) # "ok"
    /\ Resolves(ptable, cs.in[2])
    /\ Len(cs.probed) = 2
    /\ ~cs.result

(***************************************************************************)
(* The lifecycle: one invocation of the tool, after a prior one or none,    *)
(* on a machine whose processes and ports change under it.                 *)
(***************************************************************************)
\* The registry a prior "start --background" left: its three children had
\* the pids 1, 2 and 3.
PriorMap == [k \in 1..Len(ServiceNames) |-> [name |-> ServiceNames[k], pid |-> k]]

\* Before the invocation: the registry of the prior start is there or was
\* lost; each of the prior children is still running or has exited.
Init ==
    /\ ptable \in {pt \in [Pids -> Classes] :
                     \A p \in Pids : pt[p] \in {"none"} \cup
                         (IF p <= Len(ServiceNames) THEN {ServiceNames[p]} ELSE {})}
    /\ reach = {}
    /\ envLeft = 0
    /\ pidFile \in {NoFile, write_pid_file(PriorMap)}
    /\ baseDir = TRUE
    /\ procs = <<>>
    /\ ss = ssIdle
    /\ ws = wsIdle
    /\ cs = csIdle
    /\ cmd = cmdIdle
    /\ rg = rgIdle
    /\ other = otherIdle

Next ==
    \/ \E background, force \in BOOLEAN, t \in 1..MaxStartTimeout :
          Invoke("start", background, force, t)
    \/ \E force \in BOOLEAN : Invoke("stop", FALSE, force, 0)
    \/ Invoke("status", FALSE, FALSE, 0)
    \/ InvokeStatusAgain
    \/ Invoke("clean", FALSE, FALSE, 0)
    \/ Invoke("force_quit", FALSE, FALSE, 0)
    \/ start_command
    \/ stop_command
    \/ status_command
    \/ \E rmtree_ok \in BOOLEAN : clean_command(rmtree_ok)
    \/ force_quit_command
    \/ stop_services
    \/ wait_for_services
    \/ Interrupt
    \/ \E p \in Pids : EnvExit(p)
    \/ \E name \in ServiceSet : EnvPort(name)

Spec == Init /\ [][Next]_vars

\* The registry held at least one entry when the invocation began.
Populated == Len(read_pid_file(cmd.file0).pids) > 0

\* C2: stop_command on a populated registry runs the graceful terminator on
\* the registry's id map and, however that ends, the registry file is gone
\* when the command is over.
C2_StopRemovesRegistry ==
    (cmd.op = "stop" /\ cmd.pc = "exit" /\ Populated) =>
        /\ ~pidFile.exists
        /\ cmd.error = "none"

\* C6: no lifecycle operation takes the services for not running because the
\* registry is absent or stale: start (without force) launches nothing, and
\* clean removes nothing, while a process matching a service pattern is alive.
C6_LivenessRederived ==
    /\ (cmd.op = "start" /\ ~cmd.force /\ Len(procs) > 0) => ~cmd.sawMatch
    /\ (cmd.op = "clean" /\ cmd.removed) => ~cmd.sawMatch

\* C7: start without force on a populated registry whose services all check
\* as live launches nothing, signals nothing, leaves the registry file as it
\* was; in the foreground it stays in signal.pause() and only an interrupt
\* ends it, with exit code 0 and the children untouched.
C7_AlreadyRunningTouchesNothing ==
    (cmd.op = "start" /\ cmd.pc # "start" /\ ~cmd.force /\ cs.result /\ Populated) =>
        /\ cmd.path = "already"
        /\ procs = <<>>
        /\ ss = ssIdle
        /\ ws = wsIdle
        /\ cmd.sigs = {}
        /\ pidFile = cmd.file0
        /\ cmd.pc \in {"pause", "exit"}
        /\ cmd.pc = "pause" => ~cmd.background
        /\ cmd.pc = "exit" => /\ cmd.exit = 0
                              /\ cmd.error = "none"
                              /\ cmd.interrupted = ~cmd.background

C7_Witness ==
    /\ cmd.op = "start" /\ cmd.path = "already"
    /\ ~cmd.background
    /\ cmd.pc = "exit" /\ cmd.interrupted
    /\ \E p \in Pids : ptable[p] # "none"

\* C8: start with force on a populated registry takes the existing id map
\* through stop_services (no kill signal to a pid without a terminate signal
\* before it) and deletes the registry file before the first launch, whether
\* the old services were live or not and whether all of them stopped or not.
C8_ForceStopsAndDeletesFirst ==
    (cmd.op = "start" /\ cmd.pc # "start" /\ cmd.force /\ Populated) =>
        /\ cmd.path = "forced"
        /\ cmd.pc = "start_stopping" =>
              /\ ss.pc # "idle" /\ ss.pids = cmd.existing
              /\ ss.killSent \subseteq ss.termSent
              /\ procs = <<>>
              /\ cmd.stopped = "none"
        /\ cmd.pc # "start_stopping" => (cmd.stopped # "none" \/ cmd.interrupted)
        /\ Len(procs) > 0 => cmd.stopped # "none"
        /\ cmd.pc \in {"start_bins", "start_launch", "start_waiting"} => ~pidFile.exists

C8_Witness ==
    /\ cmd.op = "start" /\ cmd.force /\ Populated
    /\ cmd.stopped = "some_failed"
    /\ ~cs.result
    /\ Len(procs) = 1
    /\ ~pidFile.exists

\* C9: when the readiness wait of start returns failure, start goes on: the
\* registry is written with the pids of the three launched processes and the
\* command reaches the background return or the foreground wait.
C9_ReadinessFailureDoesNotAbort ==
    /\ (cmd.pc = "start_waiting" /\ ws.pc = "done") => ENABLED start_command_write
    /\ (cmd.op = "start" /\ cmd.waited = "failed") =>
          /\ Len(procs) = Len(ServiceNames)
          /\ pidFile.exists
          /\ read_pid_file(pidFile).pids = HandleMap(procs)
          /\ cmd.error = "none"
          /\ IF cmd.background THEN cmd.pc = "exit" /\ cmd.exit = 0
             ELSE cmd.pc = "start_fg" \/ (cmd.pc = "exit" /\ cmd.exit = 0)

C9_Witness ==
    /\ cmd.op = "start" /\ cmd.waited = "failed"
    /\ cmd.pc = "start_fg"
    /\ \E k \in 1..Len(procs) : ~procs[k].running

\* C10: in start the three launches come before the first readiness poll, a
\* launch waits for no readiness (it can be taken whatever the ports are),
\* and the registry is written only once the readiness wait has returned.
C10_LaunchesThenWaitThenWrite ==
    [][/\ (ws'.pc # "idle" /\ cmd'.op = "start") => Len(procs') = Len(ServiceNames)
       /\ Len(procs') > Len(procs) => (ws.pc = "idle" /\ cmd.pc = "start_launch")
       /\ cmd.pc = "start_launch" => ENABLED start_command_launch
       /\ (cmd.op = "start" /\ pidFile' # pidFile /\ pidFile'.exists) =>
              (cmd.pc = "start_waiting" /\ ws.pc = "done" /\ Len(procs) = Len(ServiceNames))
      ]_vars

C10_Witness ==
    /\ cmd.op = "start" /\ cmd.waited = "ready"
    /\ pidFile.exists
    /\ Len(procs) = Len(ServiceNames)

\* C11: an interrupt during the foreground wait of start takes every tracked
\* service through the graceful terminator before the exit: no child is left
\* alive without a kill signal after its terminate signal, and the registry
\* file is removed.
C11_InterruptRunsTerminator ==
    (cmd.op = "start" /\ cmd.pc = "exit" /\ cmd.interrupted /\ cmd.waited # "none") =>
        /\ ~pidFile.exists
        /\ \A k \in 1..Len(procs) :
              ptable[procs[k].pid] = procs[k].name =>
                 {<<procs[k].pid, "TERM">>, <<procs[k].pid, "KILL">>} \subseteq cmd.sigs

\* C12: an interrupt at any suspension point of start after the launches, the
\* sleeps of the readiness wait included, ends with a termination signal sent
\* to every launched child still running: none is left running and unrecorded.
C12_InterruptNeverAbandonsChildren ==
    (cmd.op = "start" /\ cmd.pc = "exit" /\ cmd.interrupted /\ Len(procs) > 0) =>
        \A k \in 1..Len(procs) :
            procs[k].running =>
                \/ <<procs[k].pid, "TERM">> \in cmd.sigs
                \/ (pidFile.exists /\ read_pid_file(pidFile).pids = HandleMap(procs))

(***************************************************************************)
(* Specification of the PID registry alone: a registry file of any small   *)
(* content (or none), overwritten by write_pid_file and read back by       *)
(* read_pid_file.                                                          *)
(***************************************************************************)
MaxRegMap == 3
MaxLines == 4

RegPids == {10, 1000}

\* Lines a registry file may hold, as token sequences.
RegLines ==
    {<<"loki", "=", "1", "0", "0", "0">>,
     <<"badline">>,
     <<"promtail", "=", "notanumber">>,
     <<"grafana", "=", "3", "0", "0", "0">>,
     <<"loki", "=", "7", "=", "8">>,
     <<"grafana", "=">>,
     <<"loki", "=", "-", "1">>}

RegFiles ==
    {NoFile} \cup
    UNION {{[exists |-> TRUE, lines |-> l] : l \in [1..n -> RegLines]} : n \in 0..MaxLines}

\* Id maps of 1..MaxRegMap entries with distinct names, in any order.
RegMaps ==
    UNION {{m \in [1..k -> [name : ServiceSet, pid : RegPids]] :
              \A a, b \in 1..k : a # b => m[a].name # m[b].name}
           : k \in 1..MaxRegMap}

InitReg ==
    /\ ptable = [p \in Pids |-> "none"]
    /\ reach = {}
    /\ envLeft = 0
    /\ pidFile \in RegFiles
    /\ baseDir = TRUE
    /\ procs = <<>>
    /\ ss = ssIdle
    /\ ws = wsIdle
    /\ cs = csIdle
    /\ cmd = cmdIdle
    /\ rg = rgIdle
    /\ other = otherIdle

RegWrite(m) ==
    /\ rg.pc = "idle"
    /\ pidFile' = write_pid_file(m)
    /\ rg' = [rg EXCEPT !.pc = "written", !.map = m, !.wrote = TRUE]
    /\ UNCHANGED <<other, ptable, reach, envLeft, baseDir, procs, ss, ws, cs, cmd>>

RegRead ==
    /\ rg.pc \in {"idle", "written"}
    /\ rg' = [rg EXCEPT !.pc = "read", !.out = read_pid_file(pidFile)]
    /\ UNCHANGED <<other, ptable, reach, envLeft, pidFile, baseDir, procs, ss, ws, cs, cmd>>

NextReg ==
    \/ \E m \in RegMaps : RegWrite(m)
    \/ RegRead

SpecReg == InitReg /\ [][NextReg]_vars

\* A dict as the set of its items: dict equality does not look at the order.
Items(m) == {<<m[k].name, m[k].pid>> : k \in 1..Len(m)}

\* C13: write_pid_file followed by read_pid_file returns exactly the map
\* written (one to three service names, positive pids), whatever the order of
\* its entries and whatever the registry file held before.
C13_WriteReadRoundTrip ==
    (rg.pc = "read" /\ rg.wrote) =>
        /\ ~rg.out.none
        /\ Len(rg.out.pids) = Len(rg.map)
        /\ Items(rg.out.pids) = Items(rg.map)

C13_Witness ==
    /\ rg.pc = "read" /\ rg.wrote
    /\ Len(rg.map) = 3
    /\ rg.map[1].name = "grafana" /\ rg.map[1].pid = 1000
    /\ rg.map[3].pid = 10
    /\ pidFile # NoFile
    /\ rg.out.pids = rg.map

\* A line read_pid_file keeps: it holds "=" and what follows the first "=" is
\* an integer literal.
WellFormed(line) ==
    /\ "=" \in SeqRange(line)
    /\ LET v == SubSeq(line, FirstEq(line) + 1, Len(line))
       IN IsDigits(v) \/ (Len(v) > 1 /\ v[1] \in {"-", "+"} /\ IsDigits(Tail(v)))

ExampleFile ==
    [exists |-> TRUE,
     lines |-> << <<"loki", "=", "1", "0", "0", "0">>, <<"badline">>,
                  <<"promtail", "=", "notanumber">>, <<"grafana", "=", "3", "0", "0", "0">> >>]

\* C14: read_pid_file fails on no content: the result is absent exactly when
\* the file does not exist; otherwise it holds, for every name, the value of
\* the last well-formed line of that name and nothing else, so the lines
\* loki=1000, badline, promtail=notanumber, grafana=3000 read as
\* {loki: 1000, grafana: 3000}.
C14_MalformedLinesSkipped ==
    (rg.pc = "read" /\ ~rg.wrote) =>
        /\ rg.out.none <=> ~pidFile.exists
        /\ \A k \in 1..Len(pidFile.lines) :
              WellFormed(pidFile.lines[k]) =>
                 \E x \in 1..Len(rg.out.pids) : rg.out.pids[x].name = pidFile.lines[k][1]
        /\ \A x \in 1..Len(rg.out.pids) :
              \E k \in 1..Len(pidFile.lines) :
                 /\ WellFormed(pidFile.lines[k])
                 /\ pidFile.lines[k][1] = rg.out.pids[x].name
                 /\ IntToTokens(rg.out.pids[x].pid) =
                       SubSeq(pidFile.lines[k], 3, Len(pidFile.lines[k]))
                 /\ \A k2 \in (k + 1)..Len(pidFile.lines) :
                       WellFormed(pidFile.lines[k2]) =>
                          pidFile.lines[k2][1] # rg.out.pids[x].name
        /\ pidFile = ExampleFile =>
              rg.out.pids = <<[name |-> "loki", pid |-> 1000], [name |-> "grafana", pid |-> 3000]>>

C14_Witness ==
    /\ rg.pc = "read" /\ ~rg.wrote
    /\ pidFile = ExampleFile
    /\ Len(rg.out.pids) = 2

\* C15: a pid that never disappears gets one terminate signal and one kill
\* signal, and after the second window of KillPolls successful probes its
\* service is classified failed and the overall result is False; at the end
\* every service is classified once and the result is True iff all of them
\* are classified stopped.
C15_SurvivorFailsResultIffAllStopped ==
    [][/\ (ss.pc = "kpoll" /\ ss.n = KillPolls - 1 /\ ss' # ss
              /\ os_kill(ptable, ss.pids[ss.i].pid) = "ok") =>
             /\ ss'.failed = Append(ss.failed, ss.pids[ss.i].name)
             /\ ~ss'.success
             /\ ss.pids[ss.i].pid \in ss.termSent \cap ss.killSent
             /\ ~ss.goneObs => ss.aliveObs = TermPolls + 1
       /\ (ss.pc = "kpoll" /\ Len(ss'.failed) > Len(ss.failed)) => ss.n = KillPolls - 1
       /\ (ss'.pc = "term" /\ ss' # ss) => ss'.i = ss.i + 1
       /\ (ss'.pc = "kill" /\ ss' # ss) => (ss'.i = ss.i /\ ss.pc = "final")
       /\ (ss'.termSent # ss.termSent) => ss.pc = "term"
       /\ (ss'.killSent # ss.killSent) => ss.pc = "kill"
       /\ ss'.pc = "done" =>
             /\ Len(ss'.stopped) + Len(ss'.failed) = Len(ss'.pids)
             /\ ss'.success <=> Len(ss'.stopped) = Len(ss'.pids)
      ]_vars

C15_Witness ==
    /\ ss.pc = "kpoll" /\ ss.n = KillPolls - 1
    /\ ss.aliveObs = TermPolls + 1 /\ ~ss.goneObs
    /\ envLeft = MaxSpawn
    /\ os_kill(ptable, ss.pids[ss.i].pid) = "ok"
    /\ ss.pids[ss.i].pid \in ss.termSent \cap ss.killSent
    /\ ss.stopped # <<>>

\* C16: at a signal-send step of stop_services (the terminate send or the
\* kill send) a no-such-process error classifies the service as stopped and
\* leaves the overall result as it is, and any other OS error classifies it
\* as failed and makes the overall result False.
C16_SendErrorsClassified ==
    [][(ss.pc \in {"term", "kill"} /\ ss' # ss) =>
          LET r == os_kill(ptable, ss.pids[ss.i].pid)
              name == ss.pids[ss.i].name
          IN /\ r = "ESRCH" => /\ ss'.stopped = Append(ss.stopped, name)
                               /\ ss'.failed = ss.failed
                               /\ ss'.success = ss.success
             /\ r = "EPERM" => /\ ss'.failed = Append(ss.failed, name)
                               /\ ss'.stopped = ss.stopped
                               /\ ~ss'.success
      ]_vars

\* C17: stop_command hands its force flag to stop_services, which accepts
\* it: with force set every pid of the registry is sent the kill signal
\* directly, with no terminate signal before it, and the call ends without an
\* error of its own.
C17_ForceFlagKillsDirectly ==
    (cmd.op = "stop" /\ cmd.force /\ Populated /\ cmd.pc = "exit") =>
        LET m == read_pid_file(cmd.file0).pids
        IN /\ cmd.error = "none"
           /\ \A k \in 1..Len(m) : /\ <<m[k].pid, "KILL">> \in cmd.sigs
                                   /\ <<m[k].pid, "TERM">> \notin cmd.sigs

\* C18: within one wait_for_services call a ready flag only goes from false
\* to true: a service marked ready stays ready whatever later probes of its
\* port say, and the ready set at the end of the call (the partition logged
\* on timeout) is the set of services whose port was reachable at some probe.
C18_ReadyIsMonotone ==
    [][/\ (ws.pc # "idle" /\ ws'.pc # "idle") => ws.ready \subseteq ws'.ready
       /\ ws'.ready = ws'.reached
      ]_vars

C18_Witness ==
    /\ ws.pc = "done" /\ ~ws.result /\ ~ws.sawExit
    /\ ws.rounds >= 2
    /\ ws.ready # {}
    /\ ws.ready \cap reach = {}
    /\ Len(ws.ports) >= 2

\* wait_for_services runs on its own thread of control: a step of it that
\* can be taken is taken.
SpecWaitFair == SpecWait /\ WF_vars(wait_for_services)

\* C19: wait_for_services always returns.  When it returns False for the
\* timeout (no handle seen exited), it has made one round per unit of the
\* timeout, each followed by one sleep of one unit, the last round probed
\* every port, and the elapsed time is the timeout: with a timeout of 1, one
\* round of probes, one sleep, and False after one unit.
C19_WaitTerminatesAtTimeout ==
    /\ <>(ws.pc = "done")
    /\ [](ws.elapsed <= ws.timeout \/ ws.timeout = 0)
    /\ []((ws.pc = "done" /\ ~ws.result /\ ~ws.sawExit) =>
             /\ ws.elapsed = ws.timeout
             /\ ws.sleeps = ws.rounds
             /\ ws.rounds = ws.timeout
             /\ ws.timeout >= 1 => ws.probesRound = Len(ws.ports)
             /\ ~AllReady(ws))

C19_Witness ==
    /\ ws.pc = "done" /\ ~ws.result /\ ~ws.sawExit
    /\ ws.timeout = 1 /\ ws.rounds = 1 /\ ws.sleeps = 1 /\ ws.elapsed = 1
    /\ ws.reached = {}
    /\ ws.probesRound >= 1

\* C20: check_services_running changes the caller's id map in one way only:
\* the pid of an entry whose recorded pid is dead and whose pattern search
\* matched becomes the first matching pid.  Names, order and length stay, an
\* entry whose pid is alive keeps it, and so does a dead entry with no match.
C20_MapCorrectedOnlyOnPatternMatch ==
    cs.pc = "done" =>
        /\ Len(cs.pids) = Len(cs.in)
        /\ \A k \in 1..Len(cs.in) :
              LET e == cs.in[k]
                  matches == {p \in Pids : ptable[p] = e.name /\ e.name \in ServiceSet}
              IN /\ cs.pids[k].name = e.name
                 /\ os_kill(ptable, e.pid) = "ok" => cs.pids[k].pid = e.pid
                 /\ (os_kill(ptable, e.pid) # "ok" /\ matches = {}) => cs.pids[k].pid = e.pid
                 /\ (os_kill(ptable, e.pid) # "ok" /\ matches # {}) =>
                        /\ cs.pids[k].pid \in matches
                        /\ \A p \in matches : cs.pids[k].pid <= p

\* A stale first entry corrected by the pattern search, a second one dead
\* and unmatched: the result is False and only the first pid changed.
C20_Witness ==
    /\ cs.pc = "done"
    /\ Len(cs.in) = 2
    /\ cs.pids[1].pid # cs.in[1].pid
    /\ os_kill(ptable, cs.in[2].pid) # "ok"
    /\ cs.pids[2] = cs.in[2]
    /\ ~cs.result

\* C21: status_command never writes, rewrites or deletes the registry file and
\* sends no signal; a second status call with no start or stop in between and
\* the same process table returns the same classification.
C21_StatusReadOnlyAndRepeatable ==
    (cmd.op = "status" /\ cmd.pc = "exit") =>
        /\ pidFile = cmd.file0
        /\ cmd.sigs = {}
        /\ ss = ssIdle
        /\ cmd.exit = 0
        /\ (cmd.calls = 2 /\ ptable = cmd.table0) => cmd.status = cmd.prev

\* A second status call over a stale registry and an unchanged process table.
C21_Witness ==
    /\ cmd.op = "status"
    /\ cmd.pc = "exit"
    /\ cmd.calls = 2
    /\ ptable = cmd.table0
    /\ Populated
    /\ cmd.status = "out_of_sync"

\* C22: status reports exactly one of three classifications: "running
\* normally" iff the registry is populated and check_services_running holds
\* for its id map; otherwise "out of sync" iff some process matches a service
\* pattern; otherwise "not running", so "not running" is reported only when
\* no process of a tracked service is alive.
C22_StatusThreeWay ==
    (cmd.op = "status" /\ cmd.pc = "exit") =>
        LET pids == read_pid_file(cmd.file0).pids
            live == Len(pids) > 0 /\ check_services_running(ptable, pids).result
            swept == \E name \in ServiceSet : \E p \in Pids : ptable[p] = name
        IN /\ cmd.status \in {"normal", "out_of_sync", "not_running"}
           /\ cmd.status = "normal" <=> live
           /\ cmd.status = "out_of_sync" <=> (~live /\ swept)
           /\ cmd.status = "not_running" <=> (~live /\ ~swept)
           /\ cmd.status = "not_running" =>
                  /\ \A p \in Pids : ptable[p] \notin ServiceSet
                  /\ \A k \in 1..Len(pids) : ptable[pids[k].pid] = "none"

\* The registry was lost while services run: status reports "out of sync".
C22_Witness ==
    /\ cmd.op = "status"
    /\ cmd.pc = "exit"
    /\ ~cmd.file0.exists
    /\ cmd.status = "out_of_sync"
    /\ \E p \in Pids : ptable[p] = "grafana"

C24_MissingBinaryExitsBeforeLaunch ==
    /\ (cmd.op = "start" /\ procs # <<>>) => cmd.present = ServiceSet
    /\ (cmd.op = "start" /\ cmd.pc = "exit" /\ cmd.path \in {"fresh", "forced"}
           /\ cmd.error # "KeyboardInterrupt" /\ cmd.present # ServiceSet) =>
          /\ cmd.exit = 1
          /\ cmd.error = "none"
          /\ procs = <<>>
          /\ pidFile \in {cmd.file0, NoFile}

C26_RegistryPidsPositive ==
    rg.pc = "read" => \A x \in 1..Len(rg.out.pids) : rg.out.pids[x].pid > 0

(***************************************************************************)
(* Two "lokikit start --background" on the same base directory at the same *)
(* time, on a machine where no service runs and no registry exists.        *)
(***************************************************************************)
InitRace ==
    /\ ptable = [p \in Pids |-> "none"]
    /\ reach = {}
    /\ envLeft = 0
    /\ pidFile = NoFile
    /\ baseDir = TRUE
    /\ procs = <<>>
    /\ ss = ssIdle
    /\ ws = wsIdle
    /\ cs = csIdle
    /\ cmd = cmdIdle
    /\ rg = rgIdle
    /\ other = otherIdle

NextRace ==
    \/ Invoke("start", TRUE, FALSE, MaxStartTimeout)
    \/ start_command_check
    \/ start_command_binaries(ServiceSet)
    \/ start_command_launch
    \/ start_command_write
    \/ wait_for_services
    \/ \E name \in ServiceSet : EnvPort(name)
    \/ Switch

SpecRace == InitRace /\ [][NextRace]_vars

\* The pids of the handles h.
PidsOf(h) == {h[k].pid : k \in 1..Len(h)}

\* C27: the registry is read and written without any lock.  When two start
\* invocations interleave and both launched a full set, the one that writes
\* second replaces the registry of the first: after its write the file holds
\* its own three pids and none of the first invocation's, whose processes are
\* still running.
C27_LastWriterWins ==
    [][(/\ cmd.pc = "start_waiting"
        /\ cmd'.pc = "exit"
        /\ other' = other
        /\ other.cmd.pc = "exit"
        /\ other.cmd.waited # "none")
       => /\ pidFile = write_pid_file(HandleMap(other.procs))
          /\ pidFile' = write_pid_file(HandleMap(procs))
          /\ PidsOf(procs) \cap PidsOf(other.procs) = {}
          /\ PidsOf(read_pid_file(pidFile').pids) \cap PidsOf(other.procs) = {}
          /\ \A p \in PidsOf(other.procs) : ptable'[p] \in ServiceSet]_vars

\* Both invocations passed the already-running check, each launched three
\* processes, both have written; the registry holds the pids of one set and
\* the three processes of the other set run untracked.
C27_Witness ==
    /\ cmd.pc = "exit"
    /\ other.cmd.pc = "exit"
    /\ cmd.path = "fresh"
    /\ other.cmd.path = "fresh"
    /\ Len(procs) = 3
    /\ Len(other.procs) = 3
    /\ Cardinality(PidsOf(procs) \cup PidsOf(other.procs)) = 6
    /\ \A p \in PidsOf(procs) \cup PidsOf(other.procs) : ptable[p] \in ServiceSet
    /\ PidsOf(read_pid_file(pidFile).pids) = PidsOf(procs)

\* C28: when the bind host given to wait_for_services is 0.0.0.0, every
\* probe of every service connects to 127.0.0.1 and never to 0.0.0.0; for any
\* other host the probes connect to that host unchanged.
C28_AllInterfacesProbesLoopback ==
    /\ ws.host = "0.0.0.0" => ws.conns \subseteq {"127.0.0.1"}
    /\ ws.host # "0.0.0.0" => ws.conns \subseteq {ws.host}
    /\ "0.0.0.0" \notin ws.conns
    /\ (ws.pc \in {"check", "sleep"} /\ Len(ws.ports) > 0) => ws.conns # {}

\* A wait on bind host 0.0.0.0 that probed two services on loopback and
\* found them ready.
C28_Witness ==
    /\ ws.host = "0.0.0.0"
    /\ ws.pc = "done"
    /\ ws.result
    /\ Len(ws.ports) = 2
    /\ ws.conns = {"127.0.0.1"}

\* C29: if launching a service fails in start, the start operation aborts:
\* no later service is launched, no readiness wait runs, no registry is
\* written, and the services this invocation already launched are left as
\* they are, neither signalled nor recorded.
C29_LaunchFailureAborts ==
    (cmd.op = "start" /\ cmd.pc = "exit" /\ cmd.error = "OSError") =>
        /\ cmd.exit = 1
        /\ Len(procs) < Len(ServiceNames)
        /\ ServiceNames[Len(procs) + 1] \notin cmd.present
        /\ \A k \in 1..Len(procs) : procs[k].name = ServiceNames[k]
        /\ cmd.waited = "none"
        /\ ws = wsIdle
        /\ pidFile = IF cmd.path = "forced" THEN NoFile ELSE cmd.file0
        /\ cmd.sigs = {}
        /\ ss = ssIdle

\* The promtail launch failed after loki was launched: loki runs, and there
\* is no registry.
C29_Witness ==
    /\ cmd.op = "start"
    /\ cmd.pc = "exit"
    /\ cmd.error = "OSError"
    /\ Len(procs) = 1
    /\ ptable[procs[1].pid] = "loki"
    /\ procs[1].running
    /\ ~pidFile.exists

\* C30: a start without force on a populated registry whose services do not
\* all resolve as live launches a new set of three processes without
\* signalling the old processes still alive, then overwrites the registry
\* with the new pids only, so the surviving old pids are tracked by no entry.
C30_StaleRegistryOverwritten ==
    (cmd.op = "start" /\ ~cmd.force /\ cmd.path \notin {"none", "already"} /\ Populated) =>
        /\ cmd.path = "fresh"
        /\ ss = ssIdle
        /\ \A sg \in cmd.sigs : sg[1] \in PidsOf(procs)
        /\ cmd.waited = "none" => pidFile = cmd.file0
        /\ cmd.waited # "none" =>
              /\ Len(procs) = Len(ServiceNames)
              /\ pidFile = write_pid_file(HandleMap(procs))
              /\ \A p \in PidsOf(PriorMap) \ PidsOf(procs) :
                    p \notin PidsOf(read_pid_file(pidFile).pids)

\* The old loki had exited; the old promtail and grafana (pids 2 and 3) still
\* run, were never signalled, and the new registry does not hold their pids.
C30_Witness ==
    /\ cmd.op = "start"
    /\ ~cmd.force
    /\ Populated
    /\ cmd.path = "fresh"
    /\ cmd.waited # "none"
    /\ cmd.sigs = {}
    /\ ptable[2] = "promtail"
    /\ ptable[3] = "grafana"
    /\ {2, 3} \cap PidsOf(procs) = {}
    /\ {2, 3} \cap PidsOf(read_pid_file(pidFile).pids) = {}
    /\ Len(procs) = 3

====
